---- MODULE Spec2Model ----
(***************************************************************************)
(* Model of src/final_project/login.js, which holds two scripts:           *)
(*   - the Session Capturer (login.js, lines 1-43): opens the login page,  *)
(*     waits, reads the cookie jar, filters it and writes cookies.json;    *)
(*   - the Batch Fetcher (svg_downloader.js, lines 45-136): reads the CSV  *)
(*     manifest, restores the cookies, visits every row and dumps the page *)
(*     HTML, logging per-row failures to errors.log.                       *)
(*                                                                         *)
(* Text is modelled as a sequence of tokens (a token is a run of           *)
(* characters; " " is a whitespace token), so that trim(), includes() and  *)
(* template strings are computed rather than assumed.                      *)
(***************************************************************************)
EXTENDS Integers, Sequences, FiniteSets, TLC

(* ------------------------------ bounds --------------------------------- *)
MaxRows == 2        \* longest manifest
MaxRuns == 2        \* Batch Fetcher processes started one after the other
MaxFaults == 2      \* renderer / file-system faults injected over all runs
MaxJar == 2         \* longest browser cookie jar
MaxCaptures == 2    \* Session Capturer processes started one after the other

(* ----------------------------- constants ------------------------------- *)
CSV_FILE == <<"snowflake_chart.csv">>
COOKIES_FILE == <<"cookies.json">>
HTML_DUMP_FOLDER == <<"html_dump">>
BASE_URL == <<"https://", "simplywall", ".", "st">>
ERROR_LOG == <<"errors.log">>
LOGIN_URL == <<"https://", "simplywall", ".", "st", "/login">>
DOMAIN_FILTER == <<"simplywall", ".", "st">>

(* --------------------------- text helpers ------------------------------ *)
Range(s) == {s[k] : k \in 1..Len(s)}

Last(s) == s[Len(s)]

IsPrefix(s, t) == Len(s) <= Len(t) /\ SubSeq(t, 1, Len(s)) = s

IsSuffix(s, t) == Len(s) <= Len(t) /\ SubSeq(t, Len(t) - Len(s) + 1, Len(t)) = s

\* String.prototype.includes: sub occurs somewhere inside s
Includes(s, sub) ==
    \E k \in 1..(Len(s) - Len(sub) + 1) : SubSeq(s, k, k + Len(sub) - 1) = sub

RECURSIVE TrimStart(_)
TrimStart(s) == IF s # <<>> /\ Head(s) = " " THEN TrimStart(Tail(s)) ELSE s

RECURSIVE TrimEnd(_)
TrimEnd(s) ==
    IF s # <<>> /\ Last(s) = " " THEN TrimEnd(SubSeq(s, 1, Len(s) - 1)) ELSE s

\* String.prototype.trim
Trim(s) == TrimEnd(TrimStart(s))

\* path.join(HTML_DUMP_FOLDER, `${ticker}.html`)
HtmlPath(ticker) == HTML_DUMP_FOLDER \o <<"/">> \o ticker \o <<".html">>

\* JSON.stringify of an array of records: "[" r1 "," r2 ... "]"
RECURSIVE JSONItems(_)
JSONItems(cs) ==
    IF cs = <<>> THEN <<>>
    ELSE IF Len(cs) = 1 THEN <<Head(cs)>>
    ELSE <<Head(cs), ",">> \o JSONItems(Tail(cs))

JSONStringify(cs) == <<"[">> \o JSONItems(cs) \o <<"]">>

\* JSON.parse of such a text: the records between the brackets and commas
JSONParse(text) ==
    LET n == (Len(text) - 1) \div 2
    IN  [k \in 1..n |-> text[2 * k]]

(* ------------------------- inputs (bounded) ---------------------------- *)
\* A parsed CSV row is an object keyed by the header names.  csv-parser leaves
\* out the key of a column that a short line does not have, so row[key] is
\* undefined exactly when key is outside DOMAIN row.
Row(t, u) == [k \in {"tickers", "canonical_url"} |-> IF k = "tickers" THEN t ELSE u]

ShortRow(t) == [k \in {"tickers"} |-> t]

Rows ==
    { Row(<<"AAPL", " ">>, <<" ", "/stocks/aapl">>),
      Row(<<" ", "AAPL">>, <<"/stocks/aapl-2">>),
      Row(<<"MSFT">>, <<"/stocks/msft">>),
      ShortRow(<<"BAD">>) }

SeqsUpTo(S, n) == UNION {[1..m -> S] : m \in 0..n}

Manifests == SeqsUpTo(Rows, MaxRows)

Domains ==
    { <<"simplywall", ".", "st">>,
      <<"www", ".", "simplywall", ".", "st">>,
      <<"simplywall", ".", "st", ".", "evil", ".", "com">>,
      <<"google", ".", "com">> }

Cookie(d) == [name |-> "session", domain |-> d]

Jars == SeqsUpTo({Cookie(d) : d \in Domains}, MaxJar)

(* ------------------------------- state --------------------------------- *)
VARIABLES
    csvFile,        \* snowflake_chart.csv: [exists, rows]
    cookiesFile,    \* cookies.json: [exists, data] (data is the JSON text)
    dirExists,      \* html_dump/ exists
    htmlDump,       \* files of html_dump/: set of [name, content]
    errorLog,       \* errors.log: sequence of lines [ts, ticker, msg]
    pc,             \* Batch Fetcher: position in main()/dumpHTML()
    rows,           \* Batch Fetcher: rows resolved by readCSV()
    i,              \* Batch Fetcher: position of the for-of iterator
    ticker,         \* Batch Fetcher: loop local
    fullUrl,        \* Batch Fetcher: loop local
    htmlContent,    \* Batch Fetcher: loop local
    browser,        \* Batch Fetcher: "none" | "open" | "closed"
    page,           \* Batch Fetcher: [cookies, url] of the single page
    console,        \* Batch Fetcher: lines printed by this process
    exitCode,       \* Batch Fetcher: exit status of this process
    runNo,          \* number of the Batch Fetcher process (also its clock)
    faults,         \* faults injected so far
    trace,          \* history: navigations, file writes, log appends of this run
    latest,         \* history: name -> content of the latest successful fetch
    lpc,            \* Session Capturer: position in the async function
    lbrowser,       \* Session Capturer: "none" | "open" | "closed"
    lpage,          \* Session Capturer: url of its page
    cookies,        \* Session Capturer: result of page.cookies()
    captureNo,      \* number of the Session Capturer process
    gotoCalls,      \* history: page.goto calls of this Session Capturer process
    gotoFailed,     \* history: a page.goto of this Session Capturer process threw
    jarRead,        \* history: page.cookies() was called in this process
    prior           \* history: cookies.json when this Session Capturer process started

files == <<csvFile, cookiesFile, dirExists, htmlDump, errorLog>>

fetcher == <<pc, rows, i, ticker, fullUrl, htmlContent, browser, page, console,
             exitCode, runNo, faults, trace, latest>>

capturer == <<lpc, lbrowser, lpage, cookies, captureNo, gotoCalls, gotoFailed,
              jarRead, prior>>

vars == <<files, fetcher, capturer>>

NoFile == [exists |-> FALSE, data |-> <<>>]

NoPage == [cookies |-> <<>>, url |-> <<>>]

(* ---------------------- Session Capturer (login.js) -------------------- *)
\* cookies.filter(c => c.domain.includes('simplywall.st'))
SessionCookies(jar) == SelectSeq(jar, LAMBDA c : Includes(c.domain, DOMAIN_FILTER))

\* fs.writeFileSync(cookiePath, JSON.stringify(sessionCookies, null, 2))
WriteCookies(cs) == [exists |-> TRUE, data |-> JSONStringify(cs)]

LoginInit ==
    /\ lpc = "launch"
    /\ lbrowser = "none"
    /\ lpage = <<>>
    /\ cookies = <<>>
    /\ captureNo = 1
    /\ gotoCalls = 0
    /\ gotoFailed = FALSE
    /\ jarRead = FALSE
    /\ prior = NoFile

\* const browser = await puppeteer.launch({...userDataDir: profilePath})
LoginLaunch ==
    /\ lpc = "launch"
    /\ lbrowser' = "open"
    /\ lpc' = "newPage"
    /\ UNCHANGED <<lpage, cookies, captureNo, gotoCalls, gotoFailed, jarRead, prior>>
    /\ UNCHANGED <<files, fetcher>>

\* const page = await browser.newPage()
LoginNewPage ==
    /\ lpc = "newPage"
    /\ lpage' = <<"about:blank">>
    /\ lpc' = "goto"
    /\ UNCHANGED <<lbrowser, cookies, captureNo, gotoCalls, gotoFailed, jarRead, prior>>
    /\ UNCHANGED <<files, fetcher>>

\* A bug the navigation could have: the failure is swallowed and the script goes on
LoginGotoSwallowed ==
    /\ lpc = "goto"
    /\ gotoCalls' = gotoCalls + 1
    /\ \/ /\ lpage' = LOGIN_URL
          /\ gotoFailed' = gotoFailed
       \/ /\ lpage' = lpage
          /\ gotoFailed' = TRUE
    /\ lpc' = "wait"
    /\ UNCHANGED <<lbrowser, cookies, captureNo, jarRead, prior>>
    /\ UNCHANGED <<files, fetcher>>

\* await page.goto('https://simplywall.st/login', {timeout: 60000}): the
\* navigation succeeds, or it throws; nothing catches, so the async function
\* rejects there and none of its later statements runs
LoginGoto ==
    /\ lpc = "goto"
    /\ gotoCalls' = gotoCalls + 1
    /\ \/ /\ lpage' = LOGIN_URL
          /\ gotoFailed' = gotoFailed
          /\ lpc' = "wait"
       \/ /\ lpage' = lpage
          /\ gotoFailed' = TRUE
          /\ lpc' = "rejected"
    /\ UNCHANGED <<lbrowser, cookies, captureNo, jarRead, prior>>
    /\ UNCHANGED <<files, fetcher>>

\* await new Promise(resolve => setTimeout(resolve, 30000))
LoginWait ==
    /\ lpc = "wait"
    /\ lpc' = "cookies"
    /\ UNCHANGED <<lbrowser, lpage, cookies, captureNo, gotoCalls, gotoFailed, jarRead, prior>>
    /\ UNCHANGED <<files, fetcher>>

\* const cookies = await page.cookies(): whatever the jar holds at that moment
LoginCookies ==
    /\ lpc = "cookies"
    /\ \E jar \in Jars : cookies' = jar
    /\ jarRead' = TRUE
    /\ lpc' = "save"
    /\ UNCHANGED <<lbrowser, lpage, captureNo, gotoCalls, gotoFailed, prior>>
    /\ UNCHANGED <<files, fetcher>>

\* sessionCookies = cookies.filter(...); fs.writeFileSync(cookiePath, ...)
LoginSave ==
    /\ lpc = "save"
    /\ cookiesFile' = WriteCookies(SessionCookies(cookies))
    /\ lpc' = "close"
    /\ UNCHANGED <<csvFile, dirExists, htmlDump, errorLog>>
    /\ UNCHANGED <<lbrowser, lpage, cookies, captureNo, gotoCalls, gotoFailed, jarRead, prior>>
    /\ UNCHANGED fetcher

\* await browser.close()
LoginClose ==
    /\ lpc = "close"
    /\ lbrowser' = "closed"
    /\ lpc' = "done"
    /\ UNCHANGED <<lpage, cookies, captureNo, gotoCalls, gotoFailed, jarRead, prior>>
    /\ UNCHANGED <<files, fetcher>>

\* The operator runs login.js again: a new process, the same disk
LoginRerun ==
    /\ lpc \in {"done", "rejected"}
    /\ captureNo < MaxCaptures
    /\ captureNo' = captureNo + 1
    /\ lpc' = "launch"
    /\ lbrowser' = "none"
    /\ lpage' = <<>>
    /\ cookies' = <<>>
    /\ gotoCalls' = 0
    /\ gotoFailed' = FALSE
    /\ jarRead' = FALSE
    /\ prior' = cookiesFile
    /\ UNCHANGED <<files, fetcher>>

LoginNext ==
    \/ LoginLaunch
    \/ LoginNewPage
    \/ LoginGoto
    \/ LoginWait
    \/ LoginCookies
    \/ LoginSave
    \/ LoginClose
    \/ LoginRerun

LoginOff ==
    /\ lpc = "off"
    /\ lbrowser = "none"
    /\ lpage = <<>>
    /\ cookies = <<>>
    /\ captureNo = 0
    /\ gotoCalls = 0
    /\ gotoFailed = FALSE
    /\ jarRead = FALSE
    /\ prior = NoFile

(* -------------------- Batch Fetcher (svg_downloader.js) ---------------- *)
NoCsv == [exists |-> FALSE, rows |-> <<>>]

\* A bug readCSV could have: rows.unshift(row) instead of rows.push(row)
ReadRowsUnshift(data) == [k \in 1..Len(data) |-> data[Len(data) + 1 - k]]

\* readCSV: .on('data', row => rows.push(row)) ... .on('end', () => resolve(rows))
ReadRows(data) == [k \in 1..Len(data) |-> data[k]]

\* A bug logError could have: writeFileSync (replace) instead of appendFileSync
LogErrorReplace(t, error) == <<[ts |-> runNo, ticker |-> t, msg |-> error]>>

\* logError(ticker, error): `${new Date().toISOString()} | ${ticker} | ${error}\n`
\* appended to errors.log; the clock is read at the granularity of a run
LogError(t, error) == Append(errorLog, [ts |-> runNo, ticker |-> t, msg |-> error])

\* A bug the file write could have: a new directory entry per write
WriteFileAdd(dir, name, content) == dir \cup {[name |-> name, content |-> content]}

\* A bug the file write could have: flag 'wx', an existing file is kept
WriteFileKeep(dir, name, content) ==
    IF \E f \in dir : f.name = name
    THEN dir
    ELSE dir \cup {[name |-> name, content |-> content]}

\* fs.writeFileSync(htmlPath, htmlContent, 'utf8'): creates the file or replaces
\* the content of the file of that name
WriteFile(dir, name, content) ==
    {f \in dir : f.name # name} \cup {[name |-> name, content |-> content]}

\* The session artifacts a Batch Fetcher run may find: what the Session
\* Capturer writes for a jar
Artifacts ==
    { WriteCookies(SessionCookies(jar)) :
        jar \in { <<Cookie(<<"simplywall", ".", "st">>),
                     Cookie(<<"www", ".", "simplywall", ".", "st">>)>> } }

FetchStart ==
    /\ pc = "readCSV"
    /\ rows = <<>>
    /\ i = 0
    /\ ticker = <<>>
    /\ fullUrl = <<>>
    /\ htmlContent = <<>>
    /\ browser = "none"
    /\ page = NoPage
    /\ console = <<>>
    /\ exitCode = 0
    /\ trace = <<>>

FetchInit ==
    /\ csvFile \in {NoCsv} \cup {[exists |-> TRUE, rows |-> m] : m \in Manifests}
    /\ cookiesFile \in {NoFile} \cup Artifacts
    /\ dirExists = FALSE
    /\ htmlDump = {}
    /\ errorLog = <<>>
    /\ FetchStart
    /\ runNo = 1
    /\ faults = 0
    /\ latest = <<>>

\* main's catch (err): console.error('Fatal error:', err.message); nothing
\* else: the exit status stays what it was and the browser stays as it is
Fatal(message) ==
    /\ console' = Append(console, [text |-> "Fatal error:", arg |-> message])
    /\ pc' = "fatal"

\* const tickers = await readCSV().  fs.createReadStream(CSV_FILE) of a
\* missing file emits 'error' on the file stream; readCSV listens for 'error'
\* on the parser stream only, so the event is unhandled and ends the process
ReadCSV ==
    /\ pc = "readCSV"
    /\ IF csvFile.exists
       THEN /\ rows' = ReadRows(csvFile.rows)
            /\ pc' = "launch"
            /\ UNCHANGED <<console, exitCode>>
       ELSE /\ console' = Append(console, [text |-> "Uncaught Error:", arg |-> <<"ENOENT">> \o CSV_FILE])
            /\ exitCode' = 1
            /\ pc' = "crashed"
            /\ UNCHANGED rows
    /\ UNCHANGED <<i, ticker, fullUrl, htmlContent, browser, page, runNo, faults, trace, latest>>
    /\ UNCHANGED <<files, capturer>>

\* const browser = await puppeteer.launch({...})
Launch ==
    /\ pc = "launch"
    /\ browser' = "open"
    /\ pc' = "newPage"
    /\ UNCHANGED <<rows, i, ticker, fullUrl, htmlContent, page, console, exitCode,
                   runNo, faults, trace, latest>>
    /\ UNCHANGED <<files, capturer>>

\* const page = await browser.newPage()
NewPage ==
    /\ pc = "newPage"
    /\ page' = [cookies |-> <<>>, url |-> <<"about:blank">>]
    /\ pc' = "applyCookies"
    /\ UNCHANGED <<rows, i, ticker, fullUrl, htmlContent, browser, console, exitCode,
                   runNo, faults, trace, latest>>
    /\ UNCHANGED <<files, capturer>>

\* A bug applyCookies could have: no existence check, go on without cookies
ApplyCookiesUnchecked ==
    /\ pc = "applyCookies"
    /\ page' = [page EXCEPT !.cookies = JSONParse(cookiesFile.data)]
    /\ console' = Append(console, [text |-> "Cookies applied", arg |-> <<>>])
    /\ pc' = "mkdir"
    /\ UNCHANGED <<rows, i, ticker, fullUrl, htmlContent, browser, exitCode,
                   runNo, faults, trace, latest>>
    /\ UNCHANGED <<files, capturer>>

\* A bug applyCookies could have: page.setCookie(cookies[0]), no spread
ApplyCookiesFirstOnly ==
    /\ pc = "applyCookies"
    /\ IF ~cookiesFile.exists
       THEN /\ Fatal(<<"Cookies file ">> \o COOKIES_FILE \o <<" not found. Run login.js first.">>)
            /\ UNCHANGED page
       ELSE /\ page' = [page EXCEPT !.cookies = SubSeq(JSONParse(cookiesFile.data), 1, 1)]
            /\ console' = Append(console, [text |-> "Cookies applied", arg |-> <<>>])
            /\ pc' = "mkdir"
    /\ UNCHANGED <<rows, i, ticker, fullUrl, htmlContent, browser, exitCode,
                   runNo, faults, trace, latest>>
    /\ UNCHANGED <<files, capturer>>

\* await applyCookies(page), and main's catch when it throws
ApplyCookies ==
    /\ pc = "applyCookies"
    /\ IF ~cookiesFile.exists
       THEN /\ Fatal(<<"Cookies file ">> \o COOKIES_FILE \o <<" not found. Run login.js first.">>)
            /\ UNCHANGED page
       ELSE /\ page' = [page EXCEPT !.cookies = JSONParse(cookiesFile.data)]
            /\ console' = Append(console, [text |-> "Cookies applied", arg |-> <<>>])
            /\ pc' = "mkdir"
    /\ UNCHANGED <<rows, i, ticker, fullUrl, htmlContent, browser, exitCode,
                   runNo, faults, trace, latest>>
    /\ UNCHANGED <<files, capturer>>

\* if (!fs.existsSync(HTML_DUMP_FOLDER)) fs.mkdirSync(HTML_DUMP_FOLDER)
Mkdir ==
    /\ pc = "mkdir"
    /\ dirExists' = TRUE
    /\ pc' = "loop"
    /\ UNCHANGED <<csvFile, cookiesFile, htmlDump, errorLog>>
    /\ UNCHANGED <<rows, i, ticker, fullUrl, htmlContent, browser, page, console,
                   exitCode, runNo, faults, trace, latest>>
    /\ UNCHANGED capturer

\* catch (err) { console.error(...); logError(ticker, err.message); } and on
\* to the next row
Catch(message, out, tr) ==
    /\ console' = Append(out, [text |-> "Error dumping", arg |-> ticker])
    /\ errorLog' = LogError(ticker, message)
    /\ trace' = Append(tr, [ev |-> "log", idx |-> i, what |-> ticker])
    /\ faults' = faults + 1
    /\ pc' = "loop"

\* for (const row of rows) { const ticker = row['tickers'].trim();
\* const pathUrl = row['canonical_url'].trim(); const fullUrl = BASE_URL + pathUrl;
\* These statements are outside the try block: undefined.trim() throws a
\* TypeError that leaves the loop and dumpHTML and lands in main's catch
ForOf ==
    /\ pc = "loop"
    /\ IF i = Len(rows)
       THEN /\ pc' = "close"
            /\ UNCHANGED <<i, ticker, fullUrl, console>>
       ELSE LET row == rows[i + 1] IN
            /\ i' = i + 1
            /\ IF "tickers" \notin DOMAIN row \/ "canonical_url" \notin DOMAIN row
               THEN /\ Fatal(<<"Cannot read properties of undefined (reading 'trim')">>)
                    /\ UNCHANGED <<ticker, fullUrl>>
               ELSE /\ ticker' = Trim(row["tickers"])
                    /\ fullUrl' = BASE_URL \o Trim(row["canonical_url"])
                    /\ pc' = "goto"
                    /\ UNCHANGED console
    /\ UNCHANGED <<rows, htmlContent, browser, page, exitCode, runNo, faults, trace, latest>>
    /\ UNCHANGED <<files, capturer>>

\* A bug the navigation could have: a failed fetch removes the identifier's
\* old output file
GotoUnlinksOnFailure ==
    /\ pc = "goto"
    /\ LET out == Append(console, [text |-> "Visiting", arg |-> fullUrl])
           tr == Append(trace, [ev |-> "nav", idx |-> i, what |-> fullUrl])
       IN  \/ /\ page' = [page EXCEPT !.url = fullUrl]
              /\ console' = out
              /\ trace' = tr
              /\ pc' = "settle"
              /\ UNCHANGED <<errorLog, faults, htmlDump>>
           \/ /\ faults < MaxFaults
              /\ Catch(<<"Navigation timeout of 60000 ms exceeded">>, out, tr)
              /\ htmlDump' = {f \in htmlDump : f.name # HtmlPath(ticker)}
              /\ UNCHANGED page
    /\ UNCHANGED <<csvFile, cookiesFile, dirExists>>
    /\ UNCHANGED <<rows, i, ticker, fullUrl, htmlContent, browser, exitCode, runNo, latest>>
    /\ UNCHANGED capturer

\* A bug the navigation could have: page.goto is not awaited, so the script
\* goes on while the page still shows what it showed before
GotoNotAwaited ==
    /\ pc = "goto"
    /\ console' = Append(console, [text |-> "Visiting", arg |-> fullUrl])
    /\ trace' = Append(trace, [ev |-> "nav", idx |-> i, what |-> fullUrl])
    /\ \/ page' = [page EXCEPT !.url = fullUrl]
       \/ page' = page
    /\ pc' = "settle"
    /\ UNCHANGED <<errorLog, faults>>
    /\ UNCHANGED <<csvFile, cookiesFile, dirExists, htmlDump>>
    /\ UNCHANGED <<rows, i, ticker, fullUrl, htmlContent, browser, exitCode, runNo, latest>>
    /\ UNCHANGED capturer

\* console.log(`Visiting ${fullUrl}`); await page.goto(fullUrl, {waitUntil:
\* 'networkidle2', timeout: 60000}): loads the page, or throws (timeout,
\* network error) into the catch block
Goto ==
    /\ pc = "goto"
    /\ LET out == Append(console, [text |-> "Visiting", arg |-> fullUrl])
           tr == Append(trace, [ev |-> "nav", idx |-> i, what |-> fullUrl])
       IN  \/ /\ page' = [page EXCEPT !.url = fullUrl]
              /\ console' = out
              /\ trace' = tr
              /\ pc' = "settle"
              /\ UNCHANGED <<errorLog, faults>>
           \/ /\ faults < MaxFaults
              /\ Catch(<<"Navigation timeout of 60000 ms exceeded">>, out, tr)
              /\ UNCHANGED page
    /\ UNCHANGED <<csvFile, cookiesFile, dirExists, htmlDump>>
    /\ UNCHANGED <<rows, i, ticker, fullUrl, htmlContent, browser, exitCode, runNo, latest>>
    /\ UNCHANGED capturer

\* await new Promise(resolve => setTimeout(resolve, 5000))
Settle ==
    /\ pc = "settle"
    /\ pc' = "content"
    /\ UNCHANGED <<rows, i, ticker, fullUrl, htmlContent, browser, page, console,
                   exitCode, runNo, faults, trace, latest>>
    /\ UNCHANGED <<files, capturer>>

\* const htmlContent = await page.content(): what the page shows now (the
\* document of its url at this time), or a throw into the catch block
Content ==
    /\ pc = "content"
    /\ \/ /\ htmlContent' = [url |-> page.url, at |-> runNo]
          /\ pc' = "write"
          /\ UNCHANGED <<console, errorLog, faults, trace>>
       \/ /\ faults < MaxFaults
          /\ Catch(<<"Execution context was destroyed">>, console, trace)
          /\ UNCHANGED htmlContent
    /\ UNCHANGED <<csvFile, cookiesFile, dirExists, htmlDump>>
    /\ UNCHANGED <<rows, i, ticker, fullUrl, browser, page, exitCode, runNo, latest>>
    /\ UNCHANGED capturer

\* A bug the write could have: a failed write cleans the output folder up
WriteFailClears ==
    /\ pc = "write"
    /\ \/ /\ htmlDump' = WriteFile(htmlDump, HtmlPath(ticker), htmlContent)
          /\ console' = Append(console, [text |-> "HTML dumped for", arg |-> ticker])
          /\ trace' = Append(trace, [ev |-> "write", idx |-> i, what |-> HtmlPath(ticker)])
          /\ latest' = (HtmlPath(ticker) :> htmlContent) @@ latest
          /\ pc' = "loop"
          /\ UNCHANGED <<errorLog, faults>>
       \/ /\ faults < MaxFaults
          /\ Catch(<<"EACCES: permission denied">>, console, trace)
          /\ htmlDump' = {}
          /\ UNCHANGED latest
    /\ UNCHANGED <<csvFile, cookiesFile, dirExists>>
    /\ UNCHANGED <<rows, i, ticker, fullUrl, htmlContent, browser, page, exitCode, runNo>>
    /\ UNCHANGED capturer

\* fs.writeFileSync(htmlPath, htmlContent, 'utf8'); console.log(`HTML dumped
\* for ${ticker}`): the file is written, or the open fails (no file is made
\* or changed) and the throw lands in the catch block
Write ==
    /\ pc = "write"
    /\ \/ /\ htmlDump' = WriteFile(htmlDump, HtmlPath(ticker), htmlContent)
          /\ console' = Append(console, [text |-> "HTML dumped for", arg |-> ticker])
          /\ trace' = Append(trace, [ev |-> "write", idx |-> i, what |-> HtmlPath(ticker)])
          /\ latest' = (HtmlPath(ticker) :> htmlContent) @@ latest
          /\ pc' = "loop"
          /\ UNCHANGED <<errorLog, faults>>
       \/ /\ faults < MaxFaults
          /\ Catch(<<"EACCES: permission denied">>, console, trace)
          /\ UNCHANGED <<htmlDump, latest>>
    /\ UNCHANGED <<csvFile, cookiesFile, dirExists>>
    /\ UNCHANGED <<rows, i, ticker, fullUrl, htmlContent, browser, page, exitCode, runNo>>
    /\ UNCHANGED capturer

\* await browser.close(); console.log('All HTML files created')
Close ==
    /\ pc = "close"
    /\ browser' = "closed"
    /\ console' = Append(console, [text |-> "All HTML files created", arg |-> <<>>])
    /\ pc' = "done"
    /\ UNCHANGED <<rows, i, ticker, fullUrl, htmlContent, page, exitCode, runNo,
                   faults, trace, latest>>
    /\ UNCHANGED <<files, capturer>>

\* The operator runs svg_downloader.js again with the same manifest and
\* session: a new process, the same disk
Rerun ==
    /\ pc \in {"done", "fatal", "crashed"}
    /\ runNo < MaxRuns
    /\ runNo' = runNo + 1
    /\ pc' = "readCSV"
    /\ rows' = <<>>
    /\ i' = 0
    /\ ticker' = <<>>
    /\ fullUrl' = <<>>
    /\ htmlContent' = <<>>
    /\ browser' = "none"
    /\ page' = NoPage
    /\ console' = <<>>
    /\ exitCode' = 0
    /\ trace' = <<>>
    /\ UNCHANGED <<faults, latest>>
    /\ UNCHANGED <<files, capturer>>

FetchNext ==
    \/ ReadCSV
    \/ Launch
    \/ NewPage
    \/ ApplyCookies
    \/ Mkdir
    \/ ForOf
    \/ Goto
    \/ Settle
    \/ Content
    \/ Write
    \/ Close
    \/ Rerun

(* --------------------------- specifications ---------------------------- *)
Init == FetchInit /\ LoginOff

Next == FetchNext

\* The Batch Fetcher, run up to MaxRuns times over one manifest and session
Spec == Init /\ [][Next]_vars

CaptureInit ==
    /\ csvFile = NoCsv
    /\ cookiesFile = NoFile
    /\ dirExists = FALSE
    /\ htmlDump = {}
    /\ errorLog = <<>>
    /\ FetchStart
    /\ runNo = 0
    /\ faults = 0
    /\ latest = <<>>
    /\ LoginInit

\* The Session Capturer, run up to MaxCaptures times
SpecCapture == CaptureInit /\ [][LoginNext]_vars

(* ------------------------------- claims --------------------------------- *)
Ended == pc \in {"done", "fatal", "crashed"}

Preconditions == csvFile.exists /\ cookiesFile.exists

\* the events of this run that are about manifest entry k
Events(kind, k) == {p \in 1..Len(trace) : trace[p].ev = kind /\ trace[p].idx = k}

\* the trimmed identifier of manifest entry k
Identifier(k) == Trim(csvFile.rows[k]["tickers"])

UniqueIdentifiers ==
    \A k, m \in 1..Len(csvFile.rows) : Identifier(k) = Identifier(m) => k = m

\* C1: a failure while handling entry k (navigation timeout, network error, any
\* exception) never stops the batch: no per-entry fault reaches main's fatal
\* handler, and a run whose preconditions hold ends with every entry attempted
\* and settled (file written, or failure logged).
C1_FailureIsolated ==
    /\ pc = "fatal" => ~cookiesFile.exists
    /\ (Ended /\ Preconditions) =>
          \A k \in 1..Len(csvFile.rows) :
             /\ Events("nav", k) # {}
             /\ Events("write", k) \cup Events("log", k) # {}

\* C2: a first run over an empty output directory and a manifest of unique
\* identifiers ends with exactly one outcome per entry: its file
\* <identifier>.html, or exactly one error-log line with its identifier.
C2_ExactlyOneOutcome ==
    (Ended /\ Preconditions /\ runNo = 1 /\ UniqueIdentifiers) =>
       \A k \in 1..Len(csvFile.rows) :
          LET hasFile == \E f \in htmlDump : f.name = HtmlPath(Identifier(k))
              lines == {p \in 1..Len(errorLog) : errorLog[p].ticker = Identifier(k)}
          IN  \/ hasFile /\ lines = {}
              \/ ~hasFile /\ Cardinality(lines) = 1

\* C3: entries are navigated in manifest order: the history of a run is
\* navigation 1, outcome 1, navigation 2, outcome 2, ... where navigation k
\* goes to the URL of the k-th line of the manifest file and outcome k is the
\* file write or the log append of entry k; none is visited twice or skipped.
C3_ManifestOrder ==
    \A p \in 1..Len(trace) :
       LET e == trace[p]
           k == (p + 1) \div 2
       IN  /\ e.idx = k
           /\ k <= Len(csvFile.rows)
           /\ (p % 2 = 1) =>
                 /\ e.ev = "nav"
                 /\ "canonical_url" \in DOMAIN csvFile.rows[k]
                 /\ e.what = BASE_URL \o Trim(csvFile.rows[k]["canonical_url"])
           /\ (p % 2 = 0) => e.ev \in {"write", "log"}

\* C3 witness: a finished run over two different rows, one of which failed
C3_Witness ==
    /\ pc = "done"
    /\ Len(trace) = 4
    /\ csvFile.rows[1] # csvFile.rows[2]
    /\ \E p \in 1..Len(trace) : trace[p].ev = "log"

\* C4: without cookies.json the run ends with the configuration error and
\* does no navigation, writes no output file and appends no error-log line.
C4_NoCookiesNoWork ==
    ~cookiesFile.exists =>
       /\ trace = <<>>
       /\ page.url \in {<<>>, <<"about:blank">>}
       /\ htmlDump = {}
       /\ errorLog = <<>>
       /\ pc \notin {"mkdir", "loop", "goto", "settle", "content", "write", "close", "done"}
       /\ pc = "fatal" =>
             Last(console) = [text |-> "Fatal error:",
                              arg |-> <<"Cookies file ">> \o COOKIES_FILE
                                        \o <<" not found. Run login.js first.">>]

\* C4 witness: the run of a non-empty manifest stopped at the missing file
C4_Witness == ~cookiesFile.exists /\ pc = "fatal" /\ Len(rows) = MaxRows

\* the domain is the target domain, one of its subdomains, or a parent of it
InTargetDomain(d) ==
    \/ d = DOMAIN_FILTER
    \/ IsSuffix(<<".">> \o DOMAIN_FILTER, d)
    \/ IsSuffix(<<".">> \o d, DOMAIN_FILTER)

\* C5: every cookie of the persisted artifact has a domain inside the target
\* domain; a domain that only contains the target string is never persisted.
C5_TargetDomainOnly ==
    cookiesFile.exists =>
       \A c \in Range(JSONParse(cookiesFile.data)) : InTargetDomain(c.domain)

ManifestNames ==
    {HtmlPath(Identifier(k)) :
        k \in {m \in 1..Len(csvFile.rows) : "tickers" \in DOMAIN csvFile.rows[m]}}

\* C6: over any number of runs the output directory holds at most one file per
\* identifier, every file is <identifier>.html of a manifest identifier, and
\* its content is the one captured by the latest successful fetch of it.
C6_OneFilePerIdentifier ==
    /\ \A f, g \in htmlDump : f.name = g.name => f = g
    /\ \A f \in htmlDump :
          /\ f.name \in ManifestNames
          /\ f.name \in DOMAIN latest
          /\ f.content = latest[f.name]

\* C6 witness: a second run has replaced the files of both entries
C6_Witness ==
    /\ pc = "done"
    /\ runNo = 2
    /\ Cardinality(htmlDump) = 2
    /\ \A f \in htmlDump : f.content.at = 2

\* C7: errors.log is append-only: every step keeps the old log as a prefix of
\* the new one, and every failed entry (also a repeated failure of the same
\* identifier in a later run) appends one more line with its identifier.
C7_LogAppendOnly ==
    [][ /\ IsPrefix(errorLog, errorLog')
        /\ faults' > faults =>
              /\ Len(errorLog') = Len(errorLog) + 1
              /\ Last(errorLog').ticker = ticker ]_vars

\* C7 witness: the same identifier failed in two runs and has two lines
C7_Witness ==
    \E p, q \in 1..Len(errorLog) :
       /\ p < q
       /\ errorLog[p].ticker = errorLog[q].ticker
       /\ errorLog[p].ts < errorLog[q].ts

\* C8: a run that processed all entries reports {succeeded, failed}:
\* succeeded is the number of files written in this run, failed the number of
\* error-log lines appended in this run, and they add up to the manifest.
C8_ReportsCounts ==
    (pc = "done" /\ Len(rows) > 0) =>
       LET succeeded == Cardinality({p \in 1..Len(trace) : trace[p].ev = "write"})
           failed == Cardinality({p \in 1..Len(trace) : trace[p].ev = "log"})
       IN  /\ succeeded + failed = Len(rows)
           /\ \E m \in Range(console) :
                 /\ m.text = "Summary"
                 /\ m.arg = <<"succeeded", succeeded, "failed", failed>>

\* C9: a configuration error (cookies.json or the manifest missing) ends the
\* process with a failure status, never with the success status.
C9_ConfigErrorExitsNonzero ==
    (Ended /\ ~Preconditions) => exitCode # 0

\* C10: when the navigation to the login page fails it is not retried, the
\* cookie jar is not read and cookies.json is what it was before the run
\* (absent, or the prior artifact unchanged).
C10_FailedNavigationWritesNothing ==
    gotoFailed =>
       /\ gotoCalls = 1
       /\ ~jarRead
       /\ cookiesFile = prior
       /\ lpc = "rejected"

\* C10 witness: a capture failed at the navigation with a prior artifact on disk
C10_Witness == gotoFailed /\ prior.exists /\ Len(prior.data) > 2

\* C11: every navigation of a run happens with all cookie records of
\* cookies.json already set on the page: from the first page.goto call on, the
\* page's cookies are exactly the records of the artifact.
C11_CookiesBeforeNavigation ==
    (pc \in {"goto", "settle", "content", "write"} \/ trace # <<>>) =>
       /\ cookiesFile.exists
       /\ JSONStringify(page.cookies) = cookiesFile.data

\* C11 witness: a first navigation has happened under an artifact of two records
C11_Witness ==
    /\ pc = "settle"
    /\ Len(trace) = 1
    /\ Len(page.cookies) = 2

\* the files of the output folder that belong to another identifier than name
Siblings(dir, name) == {f \in dir : f.name # name}

\* C12: a failing entry leaves the output files of every other identifier as
\* they were: every step of an iteration other than its own successful file
\* write, and in particular the step in which the entry fails, keeps the
\* sibling files (none created, removed or rewritten).
C12_FailureKeepsSiblings ==
    [][ (faults' > faults \/ Len(trace') <= Len(trace) \/ Last(trace').ev # "write") =>
           Siblings(htmlDump', HtmlPath(ticker)) = Siblings(htmlDump, HtmlPath(ticker)) ]_vars

\* C12 witness: an entry has just failed while a sibling's file is on disk
C12_Witness ==
    /\ pc = "loop"
    /\ trace # <<>>
    /\ Last(trace).ev = "log"
    /\ Siblings(htmlDump, HtmlPath(ticker)) # {}

\* C13: a run that ends with a configuration error (cookies.json or the
\* manifest missing) has done no partial work: no browser is left launched
\* and unclosed, html_dump/ was not created, no file and no log line written.
C13_ConfigErrorNoPartialWork ==
    (Ended /\ ~Preconditions) =>
       /\ browser # "open"
       /\ ~dirExists
       /\ htmlDump = {}
       /\ errorLog = <<>>

\* the URL the code composes for manifest entry k
EntryUrl(k) == BASE_URL \o Trim(csvFile.rows[k]["canonical_url"])

\* the entries of this run that were navigated to and are not settled yet
InProgress ==
    {k \in 1..Len(rows) :
        Events("nav", k) # {} /\ Events("write", k) \cup Events("log", k) = {}}

\* C14: the one page serves one entry at a time: at most one entry is between
\* its navigation and its outcome, and it is the entry of the current
\* iteration; while it is being captured the page shows that entry's URL, the
\* captured content is that entry's, and every file written in this run holds
\* content captured from an entry with the file's identifier.
C14_OneEntryAtATime ==
    /\ Cardinality(InProgress) <= 1
    /\ InProgress \subseteq {i}
    /\ pc \in {"settle", "content", "write"} =>
          /\ InProgress = {i}
          /\ page.url = EntryUrl(i)
    /\ pc = "write" => htmlContent = [url |-> EntryUrl(i), at |-> runNo]
    /\ \A f \in htmlDump :
          f.content.at = runNo =>
             \E k \in 1..i : /\ Events("write", k) # {}
                             /\ f.name = HtmlPath(Identifier(k))
                             /\ f.content.url = EntryUrl(k)

\* C14 witness: the second entry is being captured after the first one's file
\* was written
C14_Witness ==
    /\ pc = "write"
    /\ i = 2
    /\ csvFile.rows[1] # csvFile.rows[2]
    /\ Events("write", 1) # {}

\* C15: a run whose preconditions hold finishes: when it has ended, every
\* entry's iteration was settled as succeeded or failed, the loop reached the
\* end of the manifest and the browser was closed, once, after the last
\* navigation.
C15_RunFinishes ==
    (Ended /\ Preconditions) =>
       /\ pc = "done"
       /\ i = Len(rows)
       /\ \A k \in 1..Len(rows) : Events("write", k) \cup Events("log", k) # {}
       /\ browser = "closed"
       /\ Cardinality({p \in 1..Len(console) : console[p].text = "All HTML files created"}) = 1

\* C16: after a successful navigation and the wait, cookies.json is replaced
\* by exactly the cookies of the target domain among those read, in jar
\* order: nothing of a prior artifact survives, and a jar without such
\* cookies leaves an empty artifact.
C16_ArtifactIsFilteredJar ==
    lpc \in {"close", "done"} =>
       /\ cookiesFile.exists
       /\ JSONParse(cookiesFile.data) = SelectSeq(cookies, LAMBDA c : InTargetDomain(c.domain))

\* a step of navigation, settling or capture keeps the identifier's file, and
\* a failing one appends a line of this run with the identifier
StaleFileKeptStep ==
    pc \in {"goto", "settle", "content"} =>
       /\ {f \in htmlDump' : f.name = HtmlPath(ticker)}
             = {f \in htmlDump : f.name = HtmlPath(ticker)}
       /\ faults' > faults =>
             /\ Len(errorLog') = Len(errorLog) + 1
             /\ SubSeq(errorLog', 1, Len(errorLog)) = errorLog
             /\ Last(errorLog').ts = runNo
             /\ Last(errorLog').ticker = ticker

\* C17: an identifier whose file was written by an earlier run and which
\* fails at navigation or content capture in a later run keeps that file as
\* it was and gets an error-log line: the steps of navigation, settling and
\* capture leave the identifier's file untouched, and the failing one appends
\* a line of this run with the identifier.
C17_StaleFileKept == [][StaleFileKeptStep]_vars

\* C17 witness: in a later run an entry has just failed at navigation or
\* capture; its file of an earlier run and its new log line are both there
C17_Witness ==
    /\ pc = "loop"
    /\ trace # <<>>
    /\ Last(trace).ev = "log"
    /\ errorLog # <<>>
    /\ Last(errorLog).ts = runNo
    /\ Last(errorLog).ticker = ticker
    /\ Last(errorLog).msg # <<"EACCES: permission denied">>
    /\ \E f \in htmlDump : f.name = HtmlPath(ticker) /\ f.content.at < runNo

\* the entries of this run, written so far, whose file is name
WrittenTo(name) ==
    {k \in 1..Len(rows) : Events("write", k) # {} /\ HtmlPath(Identifier(k)) = name}

Max(S) == CHOOSE m \in S : \A k \in S : k <= m

\* C18: entries that share a trimmed identifier share the one file
\* <identifier>.html: there is one file of that name and it holds the content
\* captured for the last of them that succeeded in this run (the later entry
\* when both succeed, the earlier one when the later fails), and every failed
\* one has its error-log line of this run.
C18_DuplicatesShareOneFile ==
    /\ \A k \in 1..Len(rows) :
          Events("write", k) # {} =>
             LET name == HtmlPath(Identifier(k))
             IN  {f \in htmlDump : f.name = name}
                    = {[name |-> name,
                        content |-> [url |-> EntryUrl(Max(WrittenTo(name))), at |-> runNo]]}
    /\ \A k \in 1..Len(rows) :
          Events("log", k) # {} =>
             \E p \in 1..Len(errorLog) :
                errorLog[p].ts = runNo /\ errorLog[p].ticker = Identifier(k)

\* C18 witness: two rows with different raw text and URL but the same trimmed
\* identifier; the earlier one succeeded, the later one failed
C18_Witness ==
    /\ pc = "done"
    /\ Len(rows) = 2
    /\ csvFile.rows[1] # csvFile.rows[2]
    /\ Identifier(1) = Identifier(2)
    /\ Events("write", 1) # {}
    /\ Events("log", 2) # {}
    /\ \E f \in htmlDump : f.content = [url |-> EntryUrl(1), at |-> runNo]

====
